---- MODULE Spec2Model ----
(***************************************************************************)
(* Tile-based flood fill of lib/floodfill.py: the scanline driver, the     *)
(* uniform-tile skipper, the seed queue and the gap-closing driver with    *)
(* seep retraction and rollback.  Tiles are N x N alpha buffers; a tile    *)
(* value carries its object identity (ref) and its pixels (px).            *)
(***************************************************************************)
EXTENDS Integers, Sequences, FiniteSets, TLC

\* ------------------------------------------------------------ sizes
\* Tile edge length, TILE_SIZE (64 in the build; the model uses small tiles).
N == 3
\* Tile coordinates of the modelled canvas are 0..MaxTX by 0..MaxTY.
MaxTX == 2
MaxTY == 2
\* The bounding box starts at a pixel in 0..MaxOrigin (both axes) and ends
\* 0..MaxOrigin pixels before the canvas does.
MaxOrigin == 3

\* ------------------------------------------------------------ constants
OPAQUE == 2 ^ 15
HALF == OPAQUE \div 2
GAPLESS == 2 * N * N

Edges == <<"north", "east", "south", "west">>
EdgeNone == "none"

Range == 0 .. (N - 1)
Px == Range \X Range

\* ------------------------------------------------------------ tiles
\* The same function, with every value computed (an explicit array).
Array(f) == f @@ [x \in {} |-> 0]

Uniform(a) == Array([p \in Px |-> a])

FULL_TILE == [ref |-> <<"FULL", 0>>, px |-> Uniform(OPAQUE)]
EMPTY_TILE == [ref |-> <<"EMPTY", 0>>, px |-> Uniform(0)]
GAPLESS_TILE == [ref |-> <<"GAPLESS", 0>>, px |-> Uniform(GAPLESS)]
NoTile == [ref |-> <<"None", 0>>, px |-> Uniform(0)]

\* A freshly allocated numpy array: the k-th allocation of the fill.
Owned(k, pixels) == [ref |-> <<"owned", k>>, px |-> pixels]

is_full(tile) == tile.ref = FULL_TILE.ref
IsOwned(tile) == tile.ref[1] = "owned"

\* dict helpers
Put(f, k, v) == (k :> v) @@ f
EmptyMap == [x \in {} |-> NoTile]

\* ------------------------------------------------------------ geometry
\* fc.nine_grid(tc)[1:5]: north, east, south, west
orthogonal(tc) ==
    << <<tc[1], tc[2] - 1>>, <<tc[1] + 1, tc[2]>>,
       <<tc[1], tc[2] + 1>>, <<tc[1] - 1, tc[2]>> >>

nine_grid(tc) ==
    << tc >> \o orthogonal(tc) \o
    << <<tc[1] + 1, tc[2] - 1>>, <<tc[1] + 1, tc[2] + 1>>,
       <<tc[1] - 1, tc[2] + 1>>, <<tc[1] - 1, tc[2] - 1>> >>

starting_coordinates(x, y) == <<x \div N, y \div N, x % N, y % N>>

TileBoundingBox(rect) ==
    [min_tx |-> rect[1] \div N,
     min_ty |-> rect[2] \div N,
     max_tx |-> (rect[1] + rect[3] - 1) \div N,
     max_ty |-> (rect[2] + rect[4] - 1) \div N,
     min_px |-> rect[1] % N,
     min_py |-> rect[2] % N,
     max_px |-> (rect[1] + rect[3] - 1) % N,
     max_py |-> (rect[2] + rect[4] - 1) % N]

outside(bb, tc) ==
    \/ tc[1] < bb.min_tx \/ tc[1] > bb.max_tx
    \/ tc[2] < bb.min_ty \/ tc[2] > bb.max_ty

crossing(bb, tc) ==
    \/ tc[1] = bb.min_tx \/ tc[1] = bb.max_tx
    \/ tc[2] = bb.min_ty \/ tc[2] = bb.max_ty

tile_bounds(bb, tc) ==
    << IF tc[1] = bb.min_tx THEN bb.min_px ELSE 0,
       IF tc[2] = bb.min_ty THEN bb.min_py ELSE 0,
       IF tc[1] = bb.max_tx THEN bb.max_px ELSE N - 1,
       IF tc[2] = bb.max_ty THEN bb.max_py ELSE N - 1 >>

InBounds(b, p) ==
    /\ b[1] <= p[1] /\ p[1] <= b[3]
    /\ b[2] <= p[2] /\ p[2] <= b[4]

\* ------------------------------------------------------------ seed lists
\* A seed value is a Python tuple or a Python list; items holds its elements.
Tuple(items) == [tuple |-> TRUE, items |-> items]
List(items) == [tuple |-> FALSE, items |-> items]
NoSeeds == Tuple(<< >>)
Truthy(seeds) == Len(seeds.items) > 0

\* The one element of a singleton set; Only({f(x) : x \in {e}}) is f(e) with e
\* evaluated once.
Only(S) == CHOOSE x \in S : TRUE

\* The maximal runs of a set of edge positions, ascending, as (start, end) pairs.
RunEnd(S, i) ==
    CHOOSE j \in i .. (N - 1) : (\A k \in i .. j : k \in S) /\ (j + 1) \notin S

RunStarts(S) == {i \in S : (i - 1) \notin S}

Runs(S, starts) ==
    [k \in 1 .. Cardinality(starts) |->
        Only({<<i, RunEnd(S, i)>> :
              i \in {j \in starts : Cardinality({h \in starts : h <= j}) = k}})]

ToRanges(S) == Only({List(Runs(T, RunStarts(T))) : T \in {S}})

\* The edge positions a list of (start, end) ranges covers.
Covered(ranges) ==
    {i \in Range : \E k \in 1 .. Len(ranges) : ranges[k][1] <= i /\ i <= ranges[k][2]}

\* The pixel at position i of the named edge of a tile.
EdgePixel(e, i) ==
    CASE e = "north" -> <<i, 0>>
      [] e = "east" -> <<N - 1, i>>
      [] e = "south" -> <<i, N - 1>>
      [] OTHER -> <<0, i>>

OnEdge(e, p) == \E i \in Range : EdgePixel(e, i) = p
EdgePos(e, p) == IF e \in {"north", "south"} THEN p[1] ELSE p[2]

Adjacent(p, q) ==
    \/ p[1] = q[1] /\ (p[2] = q[2] + 1 \/ q[2] = p[2] + 1)
    \/ p[2] = q[2] /\ (p[1] = q[1] + 1 \/ q[1] = p[1] + 1)

\* Four-connected closure of Start inside Ok (Start is a subset of Ok).
Grow(Start, Ok) == Start \cup {q \in Ok : \E p \in Start : Adjacent(p, q)}

RECURSIVE Flood(_, _)
Flood(Start, Ok) ==
    Only({IF next = start THEN start ELSE Flood(next, Ok) :
          start \in {Start}, next \in {Grow(Start, Ok)}})

\* ------------------------------------------------------------ source surface
\* The source is described by the alpha each pixel scores against the target
\* colour (0: not fillable).  Every tile shows the background pattern except
\* one optional odd tile and a set of tiles that are not fillable at all.
Pattern(kind) ==
    CASE kind = "opaque" -> Uniform(OPAQUE)
      [] kind = "half" -> Uniform(HALF)
      [] kind = "zero" -> Uniform(0)
      [] kind = "dot" ->
            Array([p \in Px |-> IF p[1] < N - 1 /\ p[2] < N - 1 THEN 0 ELSE OPAQUE])
      [] kind = "split" -> Array([p \in Px |-> IF p[1] = N \div 2 THEN 0 ELSE OPAQUE])
      [] OTHER -> Array([p \in Px |-> IF p[1] = N - 1 THEN 0 ELSE OPAQUE])

\* src.tile_request(tx, ty, readonly=True), seen through the filler's scoring
SrcTile(s, tc) ==
    IF tc \in s.zero THEN Pattern("zero")
    ELSE IF s.odd = tc THEN Pattern(s.oddkind) ELSE Pattern(s.bg)

\* ------------------------------------------------------------ Filler
NoneAlpha == 0 - 1

\* Filler.tile_uniformity: the alpha of a uniform tile, or None
tile_uniformity(srcpx) ==
    IF \A p \in Px : srcpx[p] = srcpx[<<0, 0>>] THEN srcpx[<<0, 0>>] ELSE NoneAlpha

\* The pixels a seed value names in the tile it enters.
SeedPixels(seeds, from_dir) ==
    IF seeds.tuple
    THEN IF Len(seeds.items) = 2 THEN {<<seeds.items[1], seeds.items[2]>>} ELSE {}
    ELSE {EdgePixel(from_dir, i) : i \in Covered(seeds.items)}

EdgeRanges(region, e) == ToRanges({EdgePos(e, p) : p \in {q \in region : OnEdge(e, q)}})

\* Filler.fill: four-connected fill of the unfilled, fillable pixels inside
\* the clip bounds, from the seeds; overflows are the newly filled edge pixels.
FillerFill(srcpx, out, seeds, from_dir, bounds) ==
    Only({[out |-> Array([p \in Px |-> IF p \in region THEN srcpx[p] ELSE out[p]]),
           overflows |-> [i \in 1 .. 4 |-> EdgeRanges(region, Edges[i])],
           filled_px |-> Cardinality(region)] :
          region \in {Flood(SeedPixels(seeds, from_dir) \cap ok, ok) :
                      ok \in {{p \in Px : InBounds(bounds, p) /\ out[p] = 0
                                            /\ srcpx[p] > 0}}}})

\* ------------------------------------------------------------ seed queue
\* The record zip() builds for neighbour i: (coord, seeds, extra items...)
EdgeRecord(tc, seeds, p, i) ==
    << orthogonal(tc)[i], seeds[i] >> \o [j \in 1 .. Len(p) |-> p[j][i]]

\* The loop of enqueue_overflows appends, in the order of the edges, the
\* records with seeds whose coordinate is not outside the bbox.
EnqueueSkipBBox(queue, tc, seeds, bb, p) ==
    queue \o SelectSeq([i \in 1 .. 4 |-> EdgeRecord(tc, seeds, p, i)],
                       LAMBDA edge : Truthy(edge[2]))

enqueue_overflows(queue, tc, seeds, bb, p) ==
    queue \o SelectSeq([i \in 1 .. 4 |-> EdgeRecord(tc, seeds, p, i)],
                       LAMBDA edge : Truthy(edge[2]) /\ ~outside(bb, edge[1]))

\* queue.pop(0) (lines 292, 413, 484): the queue without its head
KeepFront(queue) == queue

PopFront(queue) == Tail(queue)

\* ------------------------------------------------------------ skipper
FullEdge == List(<< <<0, N - 1>> >>)

\* _TileFillSkipper.FULL_OVERFLOWS, indexed by the edge the seeds came from
FULL_OVERFLOWS(from_dir) ==
    [i \in 1 .. 4 |-> IF Edges[i] = from_dir THEN NoSeeds ELSE FullEdge]

NoOverflows == [i \in 1 .. 4 |-> NoSeeds]

InvEdgesSame == <<"north", "east", "south", "west">>

inv_edges == <<"south", "west", "north", "east">>

\* _TileFillSkipper.uniform_tile: the shared tile of the cache for alpha
uniform_tile(alpha) == [ref |-> <<"uniform", alpha>>, px |-> Uniform(alpha)]

\* line 294 / line 414: "if tile_coord in final: continue"
NeverFinal(tc, fin) == FALSE

InFinal(tc, fin) == tc \in fin

\* Result of _TileFillSkipper.check: handled = FALSE stands for None.
NotHandled(fld, fin, cache) ==
    [handled |-> FALSE, overflows |-> NoOverflows,
     filled |-> fld, final |-> fin, uniform_tiles |-> cache]

\* lines 367-369 of check, uniform alpha 0: final, no entry, nothing overflows
ZeroTileEmptyEntry(tc, fld, fin, cache, from_dir) ==
    [handled |-> TRUE, overflows |-> NoOverflows,
     filled |-> Put(fld, tc, EMPTY_TILE), final |-> fin \cup {tc},
     uniform_tiles |-> cache]

ZeroTileOverflows(tc, fld, fin, cache, from_dir) ==
    [handled |-> TRUE, overflows |-> FULL_OVERFLOWS(from_dir),
     filled |-> fld, final |-> fin \cup {tc}, uniform_tiles |-> cache]

ZeroTile(tc, fld, fin, cache, from_dir) ==
    [handled |-> TRUE, overflows |-> NoOverflows,
     filled |-> fld, final |-> fin \cup {tc}, uniform_tiles |-> cache]

\* lines 367-374 of check, uniform alpha other than 0
FilledTile(tc, alpha, fld, fin, cache, from_dir) ==
    [handled |-> TRUE, overflows |-> FULL_OVERFLOWS(from_dir),
     filled |-> Put(fld, tc, IF alpha = OPAQUE THEN FULL_TILE ELSE uniform_tile(alpha)),
     final |-> fin \cup {tc},
     uniform_tiles |-> IF alpha = OPAQUE THEN cache ELSE cache \cup {alpha}]

\* lines 355-374 of check once the tile's uniformity is known
CheckUniform(tc, alpha, fld, fin, cache, from_dir) ==
    IF alpha = NoneAlpha THEN NotHandled(fld, fin, cache)
    ELSE IF alpha = 0 THEN ZeroTile(tc, fld, fin, cache, from_dir)
    ELSE FilledTile(tc, alpha, fld, fin, cache, from_dir)

\* _TileFillSkipper.check, with the state it reads and writes passed in
CheckUnguarded(bb, tc, srcpx, fld, fin, cache, from_dir) ==
    CheckUniform(tc, tile_uniformity(srcpx), fld, fin, cache, from_dir)

check(bb, tc, srcpx, fld, fin, cache, from_dir) ==
    IF tc \in DOMAIN fld \/ crossing(bb, tc) THEN NotHandled(fld, fin, cache)
    ELSE CheckUniform(tc, tile_uniformity(srcpx), fld, fin, cache, from_dir)

\* ------------------------------------------------------------ gap closing
\* The pixels of a set as a list, in row-major order.
RECURSIVE PixelList(_)
PixelList(S) ==
    IF S = {} THEN << >>
    ELSE LET p == CHOOSE q \in S : \A r \in S : q[2] * N + q[1] <= r[2] * N + r[1]
         IN  << p >> \o PixelList(S \ {p})

\* The pixel across the named edge, in the neighbour's coordinates.
Across(e, p) ==
    CASE e = "north" -> <<p[1], N - 1>>
      [] e = "east" -> <<0, p[2]>>
      [] e = "south" -> <<p[1], 0>>
      [] OTHER -> <<N - 1, p[2]>>

\* The alpha at (x, y) of the 3x3 grid around a tile, x and y in -1 .. N
\* (grid order of fc.nine_grid: centre, N, E, S, W, NE, SE, SW, NW).
GridAlpha(grid, x, y) ==
    LET k == CASE x >= 0 /\ x < N /\ y >= 0 /\ y < N -> 1
               [] x >= 0 /\ x < N /\ y < 0 -> 2
               [] x >= N /\ y >= 0 /\ y < N -> 3
               [] x >= 0 /\ x < N /\ y >= N -> 4
               [] x < 0 /\ y >= 0 /\ y < N -> 5
               [] x >= N /\ y < 0 -> 6
               [] x >= N /\ y >= N -> 7
               [] x < 0 /\ y >= N -> 8
               [] OTHER -> 9
    IN  grid[k].px[<<x % N, y % N>>]

\* A fillable pixel enclosed on two opposite sides by unfillable pixels.
IsGap(grid, p) ==
    /\ GridAlpha(grid, p[1], p[2]) > 0
    /\ \/ GridAlpha(grid, p[1] - 1, p[2]) = 0 /\ GridAlpha(grid, p[1] + 1, p[2]) = 0
       \/ GridAlpha(grid, p[1], p[2] - 1) = 0 /\ GridAlpha(grid, p[1], p[2] + 1) = 0

\* find_gaps(distbucket, dist_data, *grid): marks the gap pixels of the centre
\* tile with their distance; found tells whether any was marked.
find_gaps(dist, grid) ==
    [found |-> \E p \in Px : IsGap(grid, p),
     px |-> Array([p \in Px |-> IF IsGap(grid, p) THEN 1 ELSE dist[p]])]

\* The fill may pass from a pixel to a neighbour of equal or smaller distance.
RECURSIVE GapFlood(_, _, _)
GapFlood(Start, Ok, dist) ==
    LET more == {q \in Ok \ Start :
                    \E p \in Start : Adjacent(p, q) /\ dist[q] <= dist[p]}
    IN  IF more = {} THEN Start ELSE GapFlood(Start \cup more, Ok, dist)

\* The seeds GapClosingFiller.fill starts from, as (x, y, distance) triples:
\* a whole edge for an (edge,) tuple, else the listed seeds.
GapSeeds(seeds) ==
    IF seeds.tuple
    THEN {<<EdgePixel(seeds.items[1], i)[1], EdgePixel(seeds.items[1], i)[2], GAPLESS>> :
              i \in Range}
    ELSE {seeds.items[k] : k \in 1 .. Len(seeds.items)}

GapOverflow(region, dist, e) ==
    LET edge == PixelList({q \in region : OnEdge(e, q)})
    IN  List([k \in 1 .. Len(edge) |->
                <<Across(e, edge[k])[1], Across(e, edge[k])[2], dist[edge[k]]>>])

\* GapClosingFiller.fill
GapFill(alpha, dist, out, seeds, bounds) ==
    LET ok == {p \in Px : InBounds(bounds, p) /\ out[p] = 0 /\ alpha[p] > 0}
        start == {p \in ok : \E s \in GapSeeds(seeds) :
                      s[1] = p[1] /\ s[2] = p[2] /\ dist[p] <= s[3]}
        region == GapFlood(start, ok, dist)
    IN  [out |-> Array([p \in Px |-> IF p \in region THEN alpha[p] ELSE out[p]]),
         overflows |-> [i \in 1 .. 4 |-> GapOverflow(region, dist, Edges[i])],
         fill_edges |-> List(PixelList({p \in region : dist[p] < GAPLESS})),
         px_f |-> Cardinality(region)]

UnseepOverflow(region, e) ==
    LET edge == PixelList({q \in region : OnEdge(e, q)})
    IN  List([k \in 1 .. Len(edge) |-> Across(e, edge[k])])

\* GapClosingFiller.unseep: erases the filled gap pixels connected to the seeds.
Unseep(dist, out, seeds) ==
    LET ok == {p \in Px : out[p] # 0 /\ dist[p] < GAPLESS}
        start == {p \in ok : \E k \in 1 .. Len(seeds.items) : seeds.items[k] = p}
        region == Flood(start, ok)
    IN  [out |-> Array([p \in Px |-> IF p \in region THEN 0 ELSE out[p]]),
         overflows |-> [i \in 1 .. 4 |-> UnseepOverflow(region, Edges[i])],
         erased |-> Cardinality(region)]

\* gap_closing_fill.const_overflows, indexed by the edge tag of the seeds
const_overflows(e) ==
    CASE e = "north" ->
            <<Tuple(<<"south">>), Tuple(<<"west">>), NoSeeds, Tuple(<<"east">>)>>
      [] e = "east" ->
            <<Tuple(<<"south">>), Tuple(<<"west">>), Tuple(<<"north">>), NoSeeds>>
      [] e = "south" ->
            <<NoSeeds, Tuple(<<"west">>), Tuple(<<"north">>), Tuple(<<"east">>)>>
      [] e = "west" ->
            <<Tuple(<<"south">>), NoSeeds, Tuple(<<"north">>), Tuple(<<"east">>)>>
      [] OTHER ->
            <<Tuple(<<"south">>), Tuple(<<"west">>), Tuple(<<"north">>), Tuple(<<"east">>)>>

\* lib.helpers.clamp
clamp(x, lo, hi) == IF x < lo THEN lo ELSE IF x > hi THEN hi ELSE x

\* The body of the loop of prep_alphas for one coordinate; st carries
\* full_alphas, nalloc and the number of tiles requested and flooded.
PrepOne(s, ntc, st) ==
    LET alpha == tile_uniformity(SrcTile(s, ntc))
    IN  IF ntc \in DOMAIN st.full_alphas THEN st
        ELSE IF alpha = OPAQUE
        THEN [st EXCEPT !.full_alphas = Put(@, ntc, FULL_TILE), !.requests = @ + 1]
        ELSE IF alpha = 0
        THEN [st EXCEPT !.full_alphas = Put(@, ntc, EMPTY_TILE), !.requests = @ + 1]
        ELSE IF alpha # NoneAlpha
        THEN [st EXCEPT !.full_alphas = Put(@, ntc, Owned(st.nalloc + 1, Uniform(alpha))),
                        !.nalloc = @ + 1,
                        !.requests = @ + 1]
        ELSE [st EXCEPT !.full_alphas = Put(@, ntc, Owned(st.nalloc + 1, SrcTile(s, ntc))),
                        !.nalloc = @ + 1,
                        !.requests = @ + 1,
                        !.floods = @ + 1]

RECURSIVE PrepFrom(_, _, _, _)
PrepFrom(s, tc, st, k) ==
    IF k > 9 THEN st ELSE PrepFrom(s, tc, PrepOne(s, nine_grid(tc)[k], st), k + 1)

prep_alphas(s, tc, fa, na) ==
    PrepFrom(s, tc, [full_alphas |-> fa, nalloc |-> na, requests |-> 0, floods |-> 0], 1)

\* ------------------------------------------------------------ state
VARIABLES
    driver,         \* "scanline" or "gap_closing": which fill flood_fill delegates to
    pc,             \* "entry" (flood_fill called), "main", "unseep" (retraction loop),
                    \* "done" (the fill returned), "composite", "returned"
    bbox,           \* flood_fill's bbox argument (x, y, w, h)
    xy,             \* flood_fill's starting point (x, y)
    mode,           \* composite: the blend mode
    trim_result,    \* composite: whether the result is trimmed to the frame
    dst,            \* the target surface: dict coord -> rgba tile
    dst_changed_bbox, \* composite: bounding box of the tiles requested, or None
    todo,           \* composite: the items of `filled` still to iterate over
    order,          \* scanline_fill: "fifo" as coded (the oldest record first), "lifo"
                    \* for the run that takes the newest record first
    src,            \* the source surface
    init,           \* starting_coordinates(x, y): (tx, ty, px, py)
    tiles_bbox,     \* fc.TileBoundingBox(bbox)
    tileq,          \* the tile queue
    filled,         \* dict coord -> alpha tile
    final,          \* set of fully processed coords
    uniform_tiles,  \* keys of the skipper's alpha -> tile cache
    nalloc,         \* number of numpy arrays allocated so far
    full_alphas,    \* gap closing: dict coord -> alpha tile
    distances,      \* gap closing: dict coord -> distance tile
    dist_data,      \* gap closing: spare distance buffer, or None
    unseep_q,       \* gap closing: retraction queue
    backup,         \* gap closing: dict coord -> tile saved before unseep
    total_px,       \* gap closing: pixels filled minus pixels erased
    options,        \* the caller's GapClosingOptions object
    gc_filler,      \* the GapClosingFiller in use: its constructor arguments
    calls,          \* history: number of calls made to each collaborator
    handed,         \* history: (operation, kind of buffer) for each output buffer written
    last,           \* history: what the latest step did
    drained,        \* history: `filled` when the main queue drained
    acquired,       \* history: the dst coordinates requested for writing
    notified,       \* history: the rectangles passed to dst.notify_observers
    passed,         \* history: the fields of gap_closing_options when the fill was called
    reference       \* history: what scanline_fill returned in queue order

vars == <<driver, pc, bbox, xy, mode, trim_result, dst, dst_changed_bbox, todo, order,
          src, init, tiles_bbox, tileq, filled, final, uniform_tiles,
          nalloc, full_alphas, distances, dist_data, unseep_q, backup, total_px,
          options, gc_filler, calls, handed, last, drained, acquired, notified,
          passed, reference>>

\* What the two fills never write: flood_fill's arguments and composite's state
outer == <<bbox, xy, mode, trim_result, dst, dst_changed_bbox, todo, order,
           acquired, notified, passed, reference>>
inputs == <<driver, src, init, tiles_bbox, outer>>
gapvars == <<full_alphas, distances, dist_data, unseep_q, backup, total_px,
             options, gc_filler, drained>>

CanvasW == (MaxTX + 1) * N
CanvasH == (MaxTY + 1) * N
CanvasTiles == (0 .. MaxTX) \X (0 .. MaxTY)
NoCoord == <<0 - 9, 0 - 9>>

\* The sources: a background pattern and at most one odd tile near the seed.
Sources ==
    {[bg |-> b, odd |-> NoCoord, oddkind |-> b, zero |-> {}] :
        b \in {"opaque", "half", "dot"}}
    \cup {s \in [bg : {"opaque", "dot"}, odd : (0 .. 1) \X (0 .. 1),
                 oddkind : {"zero", "wall", "opaque"}, zero : {{}}] : s.oddkind # s.bg}

\* The seed pixel (x, y): around the corner shared by tiles (0,0) .. (1,1)
SeedPoints == {N - 1, N} \X {N - 1, N}

\* Margins of a bounding box against the canvas: none, one pixel (the box
\* cuts through a tile) and MaxOrigin pixels (the box leaves a tile out)
Margins == {0, 1, MaxOrigin}

\* Pixel rectangles (x, y, w, h) with w > 0 and h > 0
BBoxes ==
    {<<o[1], o[2], CanvasW - t - o[1], CanvasH - t - o[2]>> :
        o \in Margins \X Margins, t \in Margins}

Count(c, op) == [c EXCEPT ![op] = @ + 1]
NoCalls == [request |-> 0, fill |-> 0, flood |-> 0, find_gaps |-> 0, unseep |-> 0]
Step(op, tc, overflows) == [op |-> op, tc |-> tc, overflows |-> overflows]

\* dst_changed_bbox = None
NoBBox == << >>

\* The state outside the fill while a fill runs on its own
Idle ==
    /\ mode = "CombineNormal"
    /\ trim_result = FALSE
    /\ dst = EmptyMap
    /\ dst_changed_bbox = NoBBox
    /\ todo = << >>
    /\ order = "fifo"
    /\ acquired = {}
    /\ notified = << >>
    /\ reference = EmptyMap

\* The local state of scanline_fill (lines 274-289) or gap_closing_fill
\* (lines 387-411) before the first loop iteration
FirstRecord(d, start) ==
    IF d = "scanline"
    THEN << << <<start[1], start[2]>>, Tuple(<<start[3], start[4]>>), EdgeNone >> >>
    ELSE << << <<start[1], start[2]>>, Tuple(<<start[3], start[4]>>) >> >>

FillLocalsWith(opts) ==
    /\ filled = EmptyMap
    /\ final = {}
    /\ uniform_tiles = {}
    /\ nalloc = 0
    /\ full_alphas = EmptyMap
    /\ distances = EmptyMap
    /\ dist_data = NoTile
    /\ unseep_q = << >>
    /\ backup = EmptyMap
    /\ total_px = 0
    /\ options = opts
    /\ passed = opts
    /\ gc_filler = [max_gap_size |-> clamp(opts.max_gap_size, 1, N),
                    retract_seeps |-> opts.retract_seeps]
    /\ calls = NoCalls
    /\ handed = {}
    /\ last = Step("init", NoCoord, NoOverflows)
    /\ drained = EmptyMap

\* The options every fill but those of OptionSpec is called with
FillLocals == FillLocalsWith([max_gap_size |-> 1, retract_seeps |-> TRUE])

FillStart ==
    /\ tileq = FirstRecord(driver, init)
    /\ FillLocals

Init ==
    /\ driver \in {"scanline", "gap_closing"}
    /\ pc = "main"
    /\ src \in Sources
    /\ xy \in SeedPoints
    /\ bbox \in BBoxes
    /\ Idle
    /\ init = starting_coordinates(xy[1], xy[2])
    /\ tiles_bbox = TileBoundingBox(bbox)
    /\ FillStart

\* ------------------------------------------------------------ scanline_fill
\* Line 292 takes the record at the front; in the newest-first run that record
\* has just been brought there.
Turn == order = "fifo" \/ last.op = "pick"

\* A dequeued record whose tile is already final: "continue"
ScanSkip ==
    /\ driver = "scanline" /\ pc = "main" /\ Len(tileq) > 0 /\ Turn
    /\ InFinal(Head(tileq)[1], final)
    /\ tileq' = PopFront(tileq)
    /\ last' = Step("skip", Head(tileq)[1], NoOverflows)
    /\ UNCHANGED <<inputs, pc, filled, final, uniform_tiles, nalloc, gapvars,
                   calls, handed>>

\* Line 307 after the skipper handled the tile (res: its result)
SkipperResult(tc, res) ==
    /\ res.handled
    /\ filled' = res.filled
    /\ final' = res.final
    /\ uniform_tiles' = res.uniform_tiles
    /\ tileq' = enqueue_overflows(PopFront(tileq), tc, res.overflows, tiles_bbox,
                                  <<inv_edges>>)
    /\ last' = Step("uniform", tc, res.overflows)

\* The skipper resolves the tile: no per-pixel fill
ScanUniform ==
    /\ driver = "scanline" /\ pc = "main" /\ Len(tileq) > 0 /\ Turn
    /\ ~InFinal(Head(tileq)[1], final)
    /\ \E res \in {check(tiles_bbox, Head(tileq)[1], SrcTile(src, Head(tileq)[1]),
                           filled, final, uniform_tiles, Head(tileq)[3])} :
          SkipperResult(Head(tileq)[1], res)
    /\ calls' = Count(calls, "request")
    /\ UNCHANGED <<inputs, pc, nalloc, gapvars, handed>>

\* Lines 303-307 with the result out of Filler.fill on buf
ScanFillResult(tc, buf, out) ==
    /\ filled' = Put(filled, tc, [buf EXCEPT !.px = out.out])
    /\ handed' = handed \cup {<<"fill", buf.ref[1]>>}
    /\ tileq' = enqueue_overflows(PopFront(tileq), tc, out.overflows, tiles_bbox,
                                  <<inv_edges>>)
    /\ last' = Step("fill", tc, out.overflows)

\* Lines 300-306: the buffer of the tile, created on the first fill
ScanFillBuffer(tc, seeds, from_dir, res, buf) ==
    /\ ~res.handled
    /\ nalloc' = IF tc \in DOMAIN filled THEN nalloc ELSE nalloc + 1
    /\ \E out \in {FillerFill(SrcTile(src, tc), buf.px, seeds, from_dir,
                                tile_bounds(tiles_bbox, tc))} :
          ScanFillResult(tc, buf, out)

\* The skipper returns None: Filler.fill runs on the tile's buffer
ScanFill ==
    /\ driver = "scanline" /\ pc = "main" /\ Len(tileq) > 0 /\ Turn
    /\ ~InFinal(Head(tileq)[1], final)
    /\ \E res \in {check(tiles_bbox, Head(tileq)[1], SrcTile(src, Head(tileq)[1]),
                           filled, final, uniform_tiles, Head(tileq)[3])} :
          ScanFillBuffer(Head(tileq)[1], Head(tileq)[2], Head(tileq)[3], res,
                         IF Head(tileq)[1] \in DOMAIN filled THEN filled[Head(tileq)[1]]
                         ELSE Owned(nalloc + 1, Uniform(0)))
    /\ calls' = [calls EXCEPT !.request = @ + 1, !.fill = @ + 1]
    /\ UNCHANGED <<inputs, pc, final, uniform_tiles, gapvars>>

\* The queue is empty: return filled
ScanReturn ==
    /\ driver = "scanline" /\ pc = "main" /\ Len(tileq) = 0
    /\ pc' = "done"
    /\ last' = Step("return", NoCoord, NoOverflows)
    /\ UNCHANGED <<inputs, tileq, filled, final, uniform_tiles, nalloc, gapvars,
                   calls, handed>>

\* ------------------------------------------------------------ gap_closing_fill
\* Lines 423-447 once the alpha grid is known: dd is the distance buffer
\* find_gaps writes to, fg its result.
PrepareDistances(tc, seeds, pa, dd, allfull, fg) ==
    [shortcut |-> (allfull \/ ~fg.found) /\ is_full(pa.full_alphas[tc])
                  /\ ~crossing(tiles_bbox, tc) /\ seeds.tuple,
     full_alphas |-> pa.full_alphas,
     distances |-> Put(distances, tc,
                       IF allfull \/ ~fg.found THEN GAPLESS_TILE
                       ELSE [dd EXCEPT !.px = fg.px]),
     dist_data |-> IF allfull \/ ~fg.found THEN dd ELSE NoTile,
     nalloc |-> IF dist_data # NoTile THEN pa.nalloc ELSE pa.nalloc + 1,
     requests |-> pa.requests,
     floods |-> pa.floods,
     gaps |-> IF allfull THEN 0 ELSE 1,
     handed |-> (IF pa.floods > 0 THEN {<<"flood", "owned">>} ELSE {})
                \cup (IF allfull THEN {} ELSE {<<"find_gaps", dd.ref[1]>>})]

PrepareGrid(tc, seeds, pa, grid, dd) ==
    PrepareDistances(tc, seeds, pa, dd,
                     \A k \in 1 .. 9 : is_full(grid[k]), find_gaps(dd.px, grid))

PrepareAlphas(tc, seeds, pa) ==
    PrepareGrid(tc, seeds, pa,
                Array([k \in 1 .. 9 |-> pa.full_alphas[nine_grid(tc)[k]]]),
                IF dist_data # NoTile THEN dist_data
                ELSE Owned(pa.nalloc + 1, Uniform(GAPLESS)))

\* Lines 419-447 for a dequeued tile: the alpha grid, the distance tile and
\* whether the fill of the tile can be skipped (unchanged state when the tile
\* already has distance data).
GapPrepare(tc, seeds) ==
    IF tc \in DOMAIN distances
    THEN [shortcut |-> FALSE, full_alphas |-> full_alphas, distances |-> distances,
          dist_data |-> dist_data, nalloc |-> nalloc, requests |-> 0, floods |-> 0,
          gaps |-> 0, handed |-> {}]
    ELSE PrepareAlphas(tc, seeds, prep_alphas(src, tc, full_alphas, nalloc))

GapSkip ==
    /\ driver = "gap_closing" /\ pc = "main" /\ Len(tileq) > 0
    /\ InFinal(Head(tileq)[1], final)
    /\ tileq' = PopFront(tileq)
    /\ last' = Step("skip", Head(tileq)[1], NoOverflows)
    /\ UNCHANGED <<inputs, pc, filled, final, uniform_tiles, nalloc, gapvars,
                   calls, handed>>

\* Lines 437-443 with the result of the preparation
ShortcutTile(tc, seeds, prep, out_seeds) ==
    /\ prep.shortcut
    /\ full_alphas' = prep.full_alphas
    /\ distances' = prep.distances
    /\ dist_data' = prep.dist_data
    /\ nalloc' = prep.nalloc
    /\ final' = final \cup {tc}
    /\ filled' = Put(filled, tc, FULL_TILE)
    /\ tileq' = enqueue_overflows(PopFront(tileq), tc, out_seeds, tiles_bbox, << >>)
    /\ calls' = [calls EXCEPT !.request = @ + prep.requests,
                              !.flood = @ + prep.floods,
                              !.find_gaps = @ + prep.gaps]
    /\ handed' = handed \cup prep.handed
    /\ last' = Step("shortcut", tc, out_seeds)

\* Lines 432-444: a gapless FULL tile reached with tuple seeds is not filled
GapShortcut ==
    /\ driver = "gap_closing" /\ pc = "main" /\ Len(tileq) > 0
    /\ ~InFinal(Head(tileq)[1], final)
    /\ \E prep \in {GapPrepare(Head(tileq)[1], Head(tileq)[2])} :
          ShortcutTile(Head(tileq)[1], Head(tileq)[2], prep,
                       IF Len(Head(tileq)[2].items) > 1 THEN const_overflows(EdgeNone)
                       ELSE const_overflows(Head(tileq)[2].items[1]))
    /\ UNCHANGED <<inputs, pc, uniform_tiles, unseep_q, backup, total_px, options,
                   gc_filler, drained>>

\* lines 476-477: "if fill_edges: unseep_q.append((tile_coord, fill_edges, True))"
SeepRecordAlways(q, tc, fill_edges) == Append(q, <<tc, fill_edges, TRUE>>)

SeepRecord(q, tc, fill_edges) ==
    IF Truthy(fill_edges) THEN Append(q, <<tc, fill_edges, TRUE>>) ELSE q

\* Lines 463-477 with the result res of GapClosingFiller.fill on buf
FillResult(tc, prep, buf, res) ==
    /\ tileq' = enqueue_overflows(PopFront(tileq), tc, res.overflows, tiles_bbox, << >>)
    /\ final' = IF res.px_f = N * N THEN final \cup {tc} ELSE final
    /\ filled' = Put(filled, tc, IF res.px_f = N * N THEN FULL_TILE
                                 ELSE [buf EXCEPT !.px = res.out])
    /\ total_px' = total_px + res.px_f
    /\ unseep_q' = SeepRecord(unseep_q, tc, res.fill_edges)
    /\ calls' = [calls EXCEPT !.request = @ + prep.requests,
                              !.flood = @ + prep.floods,
                              !.find_gaps = @ + prep.gaps,
                              !.fill = @ + 1]
    /\ handed' = handed \cup prep.handed \cup {<<"fill", buf.ref[1]>>}
    /\ last' = Step("fill", tc, res.overflows)

\* lines 457-458: "if init_distance < 2*N*N: options.retract_seeps = False",
\* inside the branch of line 449 for the initial seed
SeedOptionsAlways(opts, initial, init_distance) == [opts EXCEPT !.retract_seeps = FALSE]

SeedOptions(opts, initial, init_distance) ==
    IF initial /\ init_distance < GAPLESS THEN [opts EXCEPT !.retract_seeps = FALSE]
    ELSE opts

\* Lines 449-466: the initial (px, py) seed gets its distance, and a seed on a
\* distance-marked pixel switches seep retraction off
FillSeeds(tc, seeds, prep, buf, initial, init_distance) ==
    /\ options' = SeedOptions(options, initial, init_distance)
    /\ gc_filler' = IF initial /\ init_distance < GAPLESS
                    THEN [gc_filler EXCEPT !.retract_seeps = FALSE] ELSE gc_filler
    /\ \E res \in {GapFill(prep.full_alphas[tc].px, prep.distances[tc].px, buf.px,
                             IF initial
                             THEN List(<< <<seeds.items[1], seeds.items[2], init_distance>> >>)
                             ELSE seeds,
                             tile_bounds(tiles_bbox, tc))} :
          FillResult(tc, prep, buf, res)

\* Lines 448-462 with the result of the preparation
FillTile(tc, seeds, prep, fresh) ==
    /\ ~prep.shortcut
    /\ full_alphas' = prep.full_alphas
    /\ distances' = prep.distances
    /\ dist_data' = prep.dist_data
    /\ nalloc' = IF fresh THEN prep.nalloc + 1 ELSE prep.nalloc
    /\ FillSeeds(tc, seeds, prep,
                 IF fresh THEN Owned(prep.nalloc + 1, Uniform(0)) ELSE filled[tc],
                 seeds.tuple /\ Len(seeds.items) > 1,
                 IF seeds.tuple /\ Len(seeds.items) > 1
                 THEN prep.distances[tc].px[<<seeds.items[1], seeds.items[2]>>]
                 ELSE GAPLESS)

\* Lines 417-477: GapClosingFiller.fill runs on the tile
GapFillTile ==
    /\ driver = "gap_closing" /\ pc = "main" /\ Len(tileq) > 0
    /\ ~InFinal(Head(tileq)[1], final)
    /\ \E prep \in {GapPrepare(Head(tileq)[1], Head(tileq)[2])} :
          FillTile(Head(tileq)[1], Head(tileq)[2], prep,
                   Head(tileq)[1] \notin DOMAIN distances)
    /\ UNCHANGED <<inputs, pc, uniform_tiles, backup, drained>>

\* The main queue is empty: line 482, the retraction pass starts
GapDrain ==
    /\ driver = "gap_closing" /\ pc = "main" /\ Len(tileq) = 0
    /\ pc' = "unseep"
    /\ backup' = EmptyMap
    /\ drained' = filled
    /\ last' = Step("drain", NoCoord, NoOverflows)
    /\ UNCHANGED <<inputs, tileq, filled, final, uniform_tiles, nalloc, full_alphas,
                   distances, dist_data, unseep_q, total_px, options, gc_filler,
                   calls, handed>>

\* line 487: "if tile_coord not in backup"
AlwaysBackup(tc, bk) == TRUE

NeedsBackup(tc, bk) == tc \notin DOMAIN bk

\* lines 488-490: the buffer unseep writes to (k: the next allocation)
UnseepInPlace(tile, k) == tile

UnseepBuffer(tile, k) == IF is_full(tile) THEN Owned(k, Uniform(OPAQUE)) ELSE tile

\* lines 488-492: the tile saved in backup
BackupCopyAlways(tile, k) == Owned(k, tile.px)

BackupOf(tile, k) == IF is_full(tile) THEN FULL_TILE ELSE Owned(k, tile.px)

\* lines 493-501 with the result res of GapClosingFiller.unseep on buf
UnseepResult(tc, buf, res) ==
    /\ filled' = Put(filled, tc, [buf EXCEPT !.px = res.out])
    /\ total_px' = total_px - res.erased
    /\ unseep_q' = enqueue_overflows(PopFront(unseep_q), tc, res.overflows, tiles_bbox,
                                     << <<FALSE, FALSE, FALSE, FALSE>> >>)
    /\ handed' = handed \cup {<<"unseep", buf.ref[1]>>}
    /\ last' = Step("unseep", tc, res.overflows)

\* lines 487-495: back up on the first visit, then unseep
UnseepBackup(tc, seeds, first, buf) ==
    /\ backup' = IF first THEN Put(backup, tc, BackupOf(filled[tc], nalloc + 1))
                 ELSE backup
    /\ nalloc' = IF first THEN nalloc + 1 ELSE nalloc
    /\ \E res \in {Unseep(distances[tc].px, buf.px, seeds)} :
          UnseepResult(tc, buf, res)

\* line 485-486: a record for a tile without distance data or fill data is dropped
UnseepDrop(tc) ==
    /\ unseep_q' = PopFront(unseep_q)
    /\ last' = Step("drop", tc, NoOverflows)
    /\ UNCHANGED <<filled, nalloc, backup, total_px, calls, handed>>

\* lines 484-501: one iteration of the retraction loop
UnseepTile ==
    /\ driver = "gap_closing" /\ pc = "unseep" /\ Len(unseep_q) > 0
    /\ IF Head(unseep_q)[1] \notin DOMAIN distances
          \/ Head(unseep_q)[1] \notin DOMAIN filled
       THEN UnseepDrop(Head(unseep_q)[1])
       ELSE /\ UnseepBackup(Head(unseep_q)[1], Head(unseep_q)[2],
                            NeedsBackup(Head(unseep_q)[1], backup),
                            IF NeedsBackup(Head(unseep_q)[1], backup)
                            THEN UnseepBuffer(filled[Head(unseep_q)[1]], nalloc + 1)
                            ELSE filled[Head(unseep_q)[1]])
            /\ calls' = Count(calls, "unseep")
    /\ UNCHANGED <<inputs, pc, tileq, final, uniform_tiles, full_alphas, distances,
                   dist_data, options, gc_filler, drained>>

\* lines 506-508: "for tile_coord, tile in backup_pairs: filled[tile_coord] = tile"
RestoreOnlyBackup(fld, bk) == bk

Restore(fld, bk) ==
    [tc \in (DOMAIN fld) \cup (DOMAIN bk) |-> IF tc \in DOMAIN bk THEN bk[tc] ELSE fld[tc]]

\* lines 502-508: the retraction erased the whole fill: restore the backups
GapRollback ==
    /\ driver = "gap_closing" /\ pc = "unseep" /\ Len(unseep_q) = 0
    /\ total_px <= 0
    /\ filled' = Restore(filled, backup)
    /\ pc' = "done"
    /\ last' = Step("rollback", NoCoord, NoOverflows)
    /\ UNCHANGED <<inputs, tileq, final, uniform_tiles, nalloc, full_alphas, distances,
                   dist_data, unseep_q, backup, total_px, options, gc_filler,
                   calls, handed, drained>>

GapReturn ==
    /\ driver = "gap_closing" /\ pc = "unseep" /\ Len(unseep_q) = 0
    /\ total_px > 0
    /\ pc' = "done"
    /\ last' = Step("return", NoCoord, NoOverflows)
    /\ UNCHANGED <<inputs, tileq, filled, final, uniform_tiles, nalloc, full_alphas,
                   distances, dist_data, unseep_q, backup, total_px, options,
                   gc_filler, calls, handed, drained>>

Next ==
    \/ ScanSkip
    \/ ScanUniform
    \/ ScanFill
    \/ ScanReturn
    \/ GapSkip
    \/ GapShortcut
    \/ GapFillTile
    \/ GapDrain
    \/ UnseepTile
    \/ GapRollback
    \/ GapReturn

Spec == Init /\ [][Next]_vars

\* scanline_fill runs its loop on one thread, without waiting on anything: an
\* iteration that can be taken is taken, and so is the return.
ScanNext == ScanSkip \/ ScanUniform \/ ScanFill \/ ScanReturn

LiveSpec == Spec /\ WF_vars(ScanNext)

\* ------------------------------------------------------------ gap closing, wide
\* gap_closing_fill on its own over a bbox of 4 x 3 whole tiles, which has two
\* adjacent tiles, (1,1) and (2,1), that are not on its edge.
WideBBox == <<0, 0, 4 * N, 3 * N>>

WideSources ==
    {[bg |-> "opaque", odd |-> NoCoord, oddkind |-> "opaque", zero |-> z] :
        z \in {{}, {<<2, 0>>, <<2, 2>>}, {<<0, 0>>}}}
    \cup {[bg |-> "dot", odd |-> <<1, 1>>, oddkind |-> "opaque", zero |-> {}]}

WideInit ==
    /\ driver = "gap_closing"
    /\ pc = "main"
    /\ src \in WideSources
    /\ xy \in SeedPoints
    /\ bbox = WideBBox
    /\ Idle
    /\ init = starting_coordinates(xy[1], xy[2])
    /\ tiles_bbox = TileBoundingBox(bbox)
    /\ FillStart

GapNext ==
    \/ GapSkip
    \/ GapShortcut
    \/ GapFillTile
    \/ GapDrain
    \/ UnseepTile
    \/ GapRollback
    \/ GapReturn

WideSpec == WideInit /\ [][GapNext]_vars

\* ------------------------------------------------------------ scanline, two orders
\* scanline_fill run twice on the same input: first as coded, the queue
\* popped at the front, then taking the newest record first.
OrderSources ==
    {[bg |-> "opaque", odd |-> <<1, 0>>, oddkind |-> k, zero |-> z] :
        k \in {"split", "opaque"}, z \in {{}, {<<2, 0>>}}}

OrderInit ==
    /\ driver = "scanline"
    /\ pc = "main"
    /\ src \in OrderSources
    /\ xy \in SeedPoints
    /\ bbox = <<0, 0, CanvasW, CanvasH>>
    /\ Idle
    /\ init = starting_coordinates(xy[1], xy[2])
    /\ tiles_bbox = TileBoundingBox(bbox)
    /\ FillStart

\* The record at position i of the queue is brought to the front
MoveToFront(queue, i) ==
    <<queue[i]>> \o SubSeq(queue, 1, i - 1) \o SubSeq(queue, i + 1, Len(queue))

\* The newest record is the next one to be processed
PickNewest ==
    /\ driver = "scanline" /\ pc = "main" /\ order = "lifo"
    /\ last.op # "pick" /\ Len(tileq) > 0
    /\ tileq' = MoveToFront(tileq, Len(tileq))
    /\ last' = Step("pick", tileq[Len(tileq)][1], NoOverflows)
    /\ UNCHANGED <<inputs, pc, filled, final, uniform_tiles, nalloc, gapvars,
                   calls, handed>>

\* The run in queue order has returned: keep its result, start the other run
OrderRestart ==
    /\ driver = "scanline" /\ pc = "done" /\ order = "fifo"
    /\ order' = "lifo"
    /\ reference' = filled
    /\ pc' = "main"
    /\ tileq' = << << <<init[1], init[2]>>, Tuple(<<init[3], init[4]>>), EdgeNone >> >>
    /\ filled' = EmptyMap
    /\ final' = {}
    /\ uniform_tiles' = {}
    /\ nalloc' = 0
    /\ calls' = NoCalls
    /\ handed' = {}
    /\ last' = Step("init", NoCoord, NoOverflows)
    /\ UNCHANGED <<driver, src, init, tiles_bbox, bbox, xy, mode, trim_result, dst,
                   dst_changed_bbox, todo, acquired, notified, passed, gapvars>>

OrderNext ==
    \/ ScanSkip
    \/ ScanUniform
    \/ ScanFill
    \/ ScanReturn
    \/ PickNewest
    \/ OrderRestart

OrderSpec == OrderInit /\ [][OrderNext]_vars

\* ------------------------------------------------------------ composite
\* A destination pixel is "clear" (transparent), "old" (painted before the
\* fill), "fill" (the fill colour) or "mix" (partly covered by the fill).
Blank == [p \in Px |-> "clear"]
OldTile == [p \in Px |-> "old"]

\* full_rgba (lines 201-203): the fill colour over the whole tile
full_rgba == [p \in Px |-> "fill"]

Modes == {"CombineNormal", "CombineDestinationOut", "CombineSourceAtop"}

\* tile_combine(mode, rgba_tile_from_alpha_tile(src_tile, colour, bounds), dst_tile)
tile_combine(m, alpha, bounds, dst_tile) ==
    [p \in Px |->
        IF ~InBounds(bounds, p) \/ alpha[p] = 0 THEN dst_tile[p]
        ELSE CASE m = "CombineNormal" -> IF alpha[p] = OPAQUE THEN "fill" ELSE "mix"
               [] m = "CombineDestinationOut" ->
                    IF alpha[p] = OPAQUE \/ dst_tile[p] = "clear" THEN "clear" ELSE "mix"
               [] OTHER ->
                    IF dst_tile[p] = "clear" THEN "clear"
                    ELSE IF alpha[p] = OPAQUE THEN "fill" ELSE "mix"]

update_bbox(bb, tx, ty) ==
    IF bb # NoBBox
    THEN << IF tx < bb[1] THEN tx ELSE bb[1],
            IF ty < bb[2] THEN ty ELSE bb[2],
            IF tx < bb[1] THEN bb[3] ELSE IF tx > bb[3] THEN tx ELSE bb[3],
            IF ty < bb[2] THEN bb[4] ELSE IF ty > bb[4] THEN ty ELSE bb[4] >>
    ELSE <<tx, ty, tx, ty>>

\* dst.tile_request(*tile_coord, readonly=False): a missing tile is created
tile_request(d, tc) == IF tc \in DOMAIN d THEN d ELSE Put(d, tc, Blank)

\* dst_tiles.pop(tile_coord)
Pop(d, tc) == [k \in (DOMAIN d) \ {tc} |-> d[k]]

\* Lines 223-247: the tile is requested for writing and written; st carries
\* dst, dst_changed_bbox and the coordinates requested so far.
NoBoxUpdate(st, tc) == st.bbox

BoxUpdate(st, tc) == update_bbox(st.bbox, tc[1], tc[2])

WriteTile(m, trim, bb, st, tc, src_tile, cut_off) ==
    [dst |-> IF is_full(src_tile) /\ ~cut_off /\ m = "CombineNormal"
             THEN Put(st.dst, tc, full_rgba)
             ELSE IF is_full(src_tile) /\ ~cut_off /\ m = "CombineDestinationOut"
             THEN Pop(st.dst, tc)
             ELSE Put(st.dst, tc,
                      tile_combine(m, src_tile.px,
                                   IF trim THEN tile_bounds(bb, tc)
                                   ELSE <<0, 0, N - 1, N - 1>>,
                                   tile_request(st.dst, tc)[tc])),
     bbox |-> BoxUpdate(st, tc),
     acquired |-> st.acquired \cup {tc}]

\* Line 215: "if trim_result and tiles_bbox.outside(tile_coord): continue"
KeepOutside(trim, bb, tc) == FALSE

SkipOutside(trim, bb, tc) == trim /\ outside(bb, tc)

\* Line 220: "if mode != myplib.CombineNormal and tile_coord not in dst_tiles: continue"
KeepMissing(m, d, tc) == FALSE

SkipMissing(m, d, tc) == m # "CombineNormal" /\ tc \notin DOMAIN d

\* Lines 211-247: the body of the loop of composite for one item of `filled`
CompositeTile(m, trim, bb, st, tc, src_tile) ==
    IF SkipOutside(trim, bb, tc) THEN st
    ELSE IF SkipMissing(m, st.dst, tc) THEN st
    ELSE WriteTile(m, trim, bb, st, tc, src_tile, trim /\ crossing(bb, tc))

\* Lines 250-254: the pixel rectangle of the changed tiles
NotifyRect(bb) ==
    <<bb[1] * N, bb[2] * N, (1 + bb[3] - bb[1]) * N, (1 + bb[4] - bb[2]) * N>>

fillvars == <<tileq, filled, final, uniform_tiles, nalloc, gapvars, calls, handed, last>>
args == <<driver, src, init, tiles_bbox, bbox, xy, mode, trim_result, order, passed,
          reference>>

\* One iteration of the loop of composite
CompTile ==
    /\ pc = "composite" /\ Len(todo) > 0
    /\ \E st \in {CompositeTile(mode, trim_result, tiles_bbox,
                                 [dst |-> dst, bbox |-> dst_changed_bbox,
                                  acquired |-> acquired],
                                 Head(todo), filled[Head(todo)])} :
          /\ dst' = st.dst
          /\ dst_changed_bbox' = st.bbox
          /\ acquired' = st.acquired
    /\ todo' = Tail(todo)
    /\ UNCHANGED <<args, fillvars, pc, notified>>

\* Lines 248-255: some tile was requested: notify the observers, return
CompNotify ==
    /\ pc = "composite" /\ Len(todo) = 0
    /\ dst_changed_bbox # NoBBox
    /\ notified' = Append(notified, NotifyRect(dst_changed_bbox))
    /\ pc' = "returned"
    /\ UNCHANGED <<args, fillvars, dst, dst_changed_bbox, todo, acquired>>

\* Line 248: no tile was requested: return
CompReturn ==
    /\ pc = "composite" /\ Len(todo) = 0
    /\ dst_changed_bbox = NoBBox
    /\ pc' = "returned"
    /\ UNCHANGED <<args, fillvars, dst, dst_changed_bbox, todo, acquired, notified>>

CompNext == CompTile \/ CompNotify \/ CompReturn

\* ------------------------------------------------------------ flood_fill
\* Lines 141-142: "if w <= 0 or h <= 0"
NegativeOnly(b) == b[3] < 0 \/ b[4] < 0

Degenerate(b) == b[3] <= 0 \/ b[4] <= 0

\* Lines 141-143: nothing to fill
FloodReject ==
    /\ pc = "entry" /\ Degenerate(bbox)
    /\ pc' = "returned"
    /\ UNCHANGED <<args, fillvars, dst, dst_changed_bbox, todo, acquired, notified>>

\* Lines 144-162: the tile bounding box, the starting point, the target
\* colour read from the source tile of the starting point, and the call of
\* the fill that gap_closing_options selects
FloodStart ==
    /\ pc = "entry" /\ ~Degenerate(bbox)
    /\ tiles_bbox' = TileBoundingBox(bbox)
    /\ init' = starting_coordinates(xy[1], xy[2])
    /\ calls' = Count(calls, "request")
    /\ tileq' = FirstRecord(driver, starting_coordinates(xy[1], xy[2]))
    /\ pc' = "main"
    /\ UNCHANGED <<driver, src, bbox, xy, mode, trim_result, order, reference,
                   filled, final, uniform_tiles, nalloc, gapvars, handed, last,
                   dst, dst_changed_bbox, todo, acquired, notified, passed>>

\* The items of a tile map in a fixed order (row by row)
First(S) == CHOOSE a \in S : \A b \in S : a[2] < b[2] \/ (a[2] = b[2] /\ a[1] <= b[1])

RECURSIVE KeysInOrder(_)
KeysInOrder(S) ==
    IF S = {} THEN << >>
    ELSE Only({<<a>> \o KeysInOrder(S \ {a}) : a \in {First(S)}})

\* Lines 164-174 with offset = 0 and feather = 0: morph and blur are not
\* called, trim_result is false and composite starts
FloodComposite ==
    /\ pc = "done"
    /\ pc' = "composite"
    /\ trim_result' = FALSE
    /\ todo' = KeysInOrder(DOMAIN filled)
    /\ UNCHANGED <<driver, src, init, tiles_bbox, bbox, xy, mode, order, reference,
                   fillvars, dst, dst_changed_bbox, acquired, notified, passed>>

\* flood_fill from its call to its return
FloodBBoxes ==
    {<<0, 0, CanvasW, CanvasH>>, <<1, N, CanvasW - 1, N>>,
     <<0, 0, 0, CanvasH>>, <<0, 0, CanvasW, 0>>, <<N, N, 0 - 1, N>>, <<N, N, 0, 0 - N>>}

FloodSources ==
    {[bg |-> "opaque", odd |-> NoCoord, oddkind |-> "opaque", zero |-> {}],
     [bg |-> "opaque", odd |-> NoCoord, oddkind |-> "opaque", zero |-> {<<0, 0>>}],
     [bg |-> "dot", odd |-> <<1, 1>>, oddkind |-> "opaque", zero |-> {}]}

FloodInit ==
    /\ pc = "entry"
    /\ driver \in {"scanline", "gap_closing"}
    /\ src \in FloodSources
    /\ xy \in SeedPoints
    /\ bbox \in FloodBBoxes
    /\ mode \in {"CombineNormal", "CombineDestinationOut"}
    /\ dst \in {EmptyMap, [tc \in CanvasTiles |-> OldTile]}
    /\ trim_result = FALSE
    /\ dst_changed_bbox = NoBBox
    /\ todo = << >>
    /\ order = "fifo"
    /\ acquired = {}
    /\ notified = << >>
    /\ reference = EmptyMap
    /\ init = << >>
    /\ tiles_bbox = NoBBox
    /\ tileq = << >>
    /\ FillLocals

FloodNext ==
    \/ FloodReject
    \/ FloodStart
    \/ Next
    \/ FloodComposite
    \/ CompNext

FloodSpec == FloodInit /\ [][FloodNext]_vars

\* composite on its own: `filled` is any map a fill, morph or blur may hand
\* over, its items come in any order, dst has tiles or not.
CompCoords == {<<1, 1>>, <<0, 2>>, <<3, 1>>}
CompTiles == {FULL_TILE, EMPTY_TILE, Owned(1, Pattern("wall")), uniform_tile(HALF)}
CompMaps == UNION {[K -> CompTiles] : K \in SUBSET CompCoords}
Perms(S) == {q \in [1 .. Cardinality(S) -> S] : \A i, j \in DOMAIN q : i # j => q[i] # q[j]}

CompInit ==
    /\ pc = "composite"
    /\ driver = "scanline"
    /\ src = [bg |-> "opaque", odd |-> NoCoord, oddkind |-> "opaque", zero |-> {}]
    /\ xy = <<N, N>>
    /\ init = starting_coordinates(xy[1], xy[2])
    /\ bbox \in {<<0, 0, 3 * N, 3 * N>>, <<1, 0, 3 * N - 1, 3 * N>>}
    /\ tiles_bbox = TileBoundingBox(bbox)
    /\ mode \in Modes
    /\ trim_result \in BOOLEAN
    /\ filled \in CompMaps
    /\ todo \in Perms(DOMAIN filled)
    /\ dst \in UNION {[K -> {OldTile}] : K \in {{}, {<<1, 1>>}, CompCoords}}
    /\ dst_changed_bbox = NoBBox
    /\ order = "fifo"
    /\ acquired = {}
    /\ notified = << >>
    /\ reference = EmptyMap
    /\ tileq = << >>
    /\ final = {}
    /\ uniform_tiles = {}
    /\ nalloc = 0
    /\ full_alphas = EmptyMap
    /\ distances = EmptyMap
    /\ dist_data = NoTile
    /\ unseep_q = << >>
    /\ backup = EmptyMap
    /\ total_px = 0
    /\ options = [max_gap_size |-> 1, retract_seeps |-> TRUE]
    /\ passed = options
    /\ gc_filler = [max_gap_size |-> clamp(1, 1, N), retract_seeps |-> TRUE]
    /\ calls = NoCalls
    /\ handed = {}
    /\ last = Step("init", NoCoord, NoOverflows)
    /\ drained = EmptyMap

CompSpec == CompInit /\ [][CompNext]_vars

\* ------------------------------------------------------------ retraction, any kernel
\* GapClosingFiller.unseep is a compiled kernel whose contract gives the shape
\* of its result and not the neighbours its overflows go to.  Here the call
\* for an initial record may return, besides the overflows of the erased
\* pixels, one seed for a neighbour across an edge it erased nothing on.
StraySeeds(e) == List(<< Across(e, EdgePixel(e, 0)) >>)

UnseepResults(res, is_initial) ==
    {res} \cup
    (IF is_initial
     THEN {[res EXCEPT !.overflows[i] = StraySeeds(Edges[i])] :
              i \in {k \in 1 .. 4 : ~Truthy(res.overflows[k])}}
     ELSE {})

\* lines 487-495 with any of the results the kernel may give
UnseepBackupAny(tc, seeds, is_initial, first, buf) ==
    /\ backup' = IF first THEN Put(backup, tc, BackupOf(filled[tc], nalloc + 1))
                 ELSE backup
    /\ nalloc' = IF first THEN nalloc + 1 ELSE nalloc
    /\ \E res \in UnseepResults(Unseep(distances[tc].px, buf.px, seeds), is_initial) :
          UnseepResult(tc, buf, res)

\* lines 484-501: one iteration of the retraction loop
UnseepAny ==
    /\ driver = "gap_closing" /\ pc = "unseep" /\ Len(unseep_q) > 0
    /\ IF Head(unseep_q)[1] \notin DOMAIN distances
          \/ Head(unseep_q)[1] \notin DOMAIN filled
       THEN UnseepDrop(Head(unseep_q)[1])
       ELSE /\ UnseepBackupAny(Head(unseep_q)[1], Head(unseep_q)[2], Head(unseep_q)[3],
                               NeedsBackup(Head(unseep_q)[1], backup),
                               IF NeedsBackup(Head(unseep_q)[1], backup)
                               THEN UnseepBuffer(filled[Head(unseep_q)[1]], nalloc + 1)
                               ELSE filled[Head(unseep_q)[1]])
            /\ calls' = Count(calls, "unseep")
    /\ UNCHANGED <<inputs, pc, tileq, final, uniform_tiles, full_alphas, distances,
                   dist_data, options, gc_filler, drained>>

RetractInit ==
    /\ driver = "gap_closing"
    /\ pc = "main"
    /\ src \in Sources
    /\ xy \in SeedPoints
    /\ bbox \in BBoxes
    /\ Idle
    /\ init = starting_coordinates(xy[1], xy[2])
    /\ tiles_bbox = TileBoundingBox(bbox)
    /\ FillStart

RetractNext ==
    \/ GapSkip
    \/ GapShortcut
    \/ GapFillTile
    \/ GapDrain
    \/ UnseepAny
    \/ GapRollback
    \/ GapReturn

RetractSpec == RetractInit /\ [][RetractNext]_vars

\* ------------------------------------------------------------ gap closing, options
\* gap_closing_fill called with each of the option objects below.  Both gap
\* sizes are clamped to 1 at line 402, the size the gap kernels are modelled
\* for; 0 is a value the clamp changes.  The bounding boxes are those with the
\* same margin on the left and at the top.
GapOptions == [max_gap_size : {0, 1}, retract_seeps : BOOLEAN]

OptionInit ==
    /\ driver = "gap_closing"
    /\ pc = "main"
    /\ src \in Sources
    /\ xy \in SeedPoints
    /\ bbox \in {b \in BBoxes : b[1] = b[2]}
    /\ Idle
    /\ init = starting_coordinates(xy[1], xy[2])
    /\ tiles_bbox = TileBoundingBox(bbox)
    /\ tileq = FirstRecord(driver, init)
    /\ \E opts \in GapOptions : FillLocalsWith(opts)

OptionSpec == OptionInit /\ [][GapNext]_vars

\* ------------------------------------------------------------ properties
Keys == DOMAIN filled
SeedTile == <<init[1], init[2]>>

\* C1: no tile coordinate outside tiles_bbox is ever in `final` or a key of
\* `filled`, for every seed position (the seed tile included).
C1_NoTileOutsideBBox ==
    \A tc \in final \cup Keys : ~outside(tiles_bbox, tc)

\* C2: every output buffer handed to Filler.fill, Filler.flood,
\* GapClosingFiller.fill, GapClosingFiller.unseep or find_gaps is an owned
\* buffer, never a sentinel or a shared uniform tile.
C2_OutputBuffersOwned ==
    \A h \in handed : h[2] = "owned"

\* C2 witness: a FULL_TILE entry was backed up and unseep ran on its copy.
C2_FullTileUnseeped ==
    /\ <<"unseep", "owned">> \in handed
    /\ \E tc \in DOMAIN backup : is_full(backup[tc]) /\ IsOwned(filled[tc])

\* C3: dequeuing a record whose tile is in `final` only removes the record:
\* no source tile is acquired, no fill runs, filled, final, distances and
\* total_px are unchanged and nothing is enqueued.
C3_FinalDequeueIsNoop ==
    [][(pc = "main" /\ Len(tileq) > 0 /\ Head(tileq)[1] \in final)
        => /\ tileq' = Tail(tileq)
           /\ UNCHANGED <<filled, final, distances, full_alphas, total_px, unseep_q,
                          uniform_tiles, nalloc, calls, handed>>]_vars

\* C3 witness: a record of a final tile has been dequeued.
C3_FinalRecordDequeued ==
    last.op = "skip" /\ last.tc \in final /\ pc = "main"

\* C4 as stated: once a tile is in `final`, no step other than the rollback
\* replaces its entry in `filled` by another object.
C4_FinalEntryNeverReplaced ==
    [][\A tc \in final \cap Keys :
          last'.op # "rollback" => (tc \in Keys' /\ filled'[tc].ref = filled[tc].ref)]_vars

\* C4 amended: the entry of a final tile is replaced only by the rollback and,
\* in the retraction pass, on the first visit of a tile whose entry is
\* FULL_TILE: FULL_TILE goes to backup and an owned copy takes its place.
C4_FinalEntryReplacedOnlyByUnseepCopy ==
    [][\A tc \in final \cap Keys :
          \/ last'.op = "rollback"
          \/ tc \in Keys' /\ filled'[tc].ref = filled[tc].ref
          \/ /\ last'.op = "unseep" /\ last'.tc = tc
             /\ is_full(filled[tc]) /\ tc \notin DOMAIN backup
             /\ is_full(backup'[tc])
             /\ filled'[tc].ref = <<"owned", nalloc'>> /\ nalloc' = nalloc + 1]_vars

\* C4 witness: the retraction pass has replaced the FULL_TILE entry of a final tile.
C4_FinalFullTileCopied ==
    /\ pc = "unseep"
    /\ \E tc \in final \cap DOMAIN backup : is_full(backup[tc]) /\ IsOwned(filled[tc])

\* The S1 input: every tile uniform and OPAQUE, the bbox a 2x2 grid of whole
\* tiles at the origin, the seed inside.
UniformGridInput ==
    /\ driver = "scanline"
    /\ src.bg = "opaque" /\ src.odd = NoCoord
    /\ tiles_bbox = TileBoundingBox(<<0, 0, 2 * N, 2 * N>>)
    /\ ~outside(tiles_bbox, SeedTile)

\* C5: for that input scanline_fill returns the four tiles of the grid, each
\* mapped to the FULL_TILE sentinel.
C5_UniformGridAllFullTile ==
    (UniformGridInput /\ pc = "done")
        => /\ Keys = (0 .. 1) \X (0 .. 1)
           /\ \A tc \in Keys : is_full(filled[tc])

UniformZero(tc) == tile_uniformity(SrcTile(src, tc)) = 0
HasPixel(tile) == \E p \in Px : tile.px[p] # 0

ZeroTileChecked == last.op = "uniform" /\ UniformZero(last.tc)

SameContent(f, g) ==
    /\ DOMAIN f = DOMAIN g
    /\ \A tc \in DOMAIN f : f[tc].px = g[tc].px /\ (is_full(f[tc]) <=> is_full(g[tc]))

\* The retraction loop is about to call unseep on the tile at the head of its queue.
UnseepDue ==
    /\ pc = "unseep" /\ Len(unseep_q) > 0
    /\ Head(unseep_q)[1] \in DOMAIN distances \cap DOMAIN filled

\* C8: in gap_closing_fill the backup of filled[tc] is taken exactly once per
\* tile, before the first unseep call on it; when the retraction queue has
\* drained with total_px <= 0 the returned `filled` equals `filled` as it was
\* when the main queue drained, and with total_px > 0 no tile is restored.
C8_BackupOnceAndRollback ==
    [][/\ UnseepDue =>
            IF Head(unseep_q)[1] \in DOMAIN backup
            THEN backup' = backup
            ELSE /\ DOMAIN backup' = DOMAIN backup \cup {Head(unseep_q)[1]}
                 /\ \A tc \in DOMAIN backup : backup'[tc] = backup[tc]
                 /\ backup'[Head(unseep_q)[1]].px = filled[Head(unseep_q)[1]].px
                 /\ is_full(backup'[Head(unseep_q)[1]]) <=> is_full(filled[Head(unseep_q)[1]])
                 /\ backup'[Head(unseep_q)[1]].ref # filled'[Head(unseep_q)[1]].ref
       /\ (pc = "unseep" /\ ~UnseepDue) => backup' = backup
       /\ (pc = "unseep" /\ pc' = "done") =>
            IF total_px <= 0 THEN SameContent(filled', drained)
            ELSE filled' = filled]_vars

\* C8 witness: the retraction erased the whole fill of a seeded region and the
\* rollback brought the pixels of a backed-up tile back.
C8_RolledBack ==
    /\ pc = "done" /\ last.op = "rollback" /\ calls.unseep > 1
    /\ \E tc \in DOMAIN backup : IsOwned(backup[tc]) /\ HasPixel(filled[tc])

\* The neighbour of tc across edge i, in the order north, east, south, west
Neighbour(tc, i) ==
    CASE i = 1 -> <<tc[1], tc[2] - 1>>
      [] i = 2 -> <<tc[1] + 1, tc[2]>>
      [] i = 3 -> <<tc[1], tc[2] + 1>>
      [] i = 4 -> <<tc[1] - 1, tc[2]>>

\* The edges of tc for which a record is due: seeds present, neighbour not outside
DueEdges(tc, seeds) ==
    {i \in 1 .. 4 : Truthy(seeds[i]) /\ ~outside(tiles_bbox, Neighbour(tc, i))}

\* `after` is `before` minus its head, followed by one record per due edge of
\* tc, in the order of the edges, each with the extra item of its edge.
EnqueuedInOrder(before, after, tc, seeds, extra) ==
    /\ Len(after) = Len(before) - 1 + Cardinality(DueEdges(tc, seeds))
    /\ \A k \in 1 .. Len(before) - 1 : after[k] = before[k + 1]
    /\ \A i \in DueEdges(tc, seeds) :
          after[Len(before) - 1 + Cardinality({j \in DueEdges(tc, seeds) : j <= i})]
              = <<Neighbour(tc, i), seeds[i]>> \o extra[i]

\* C9: enqueue_overflows appends a record for a neighbour iff the seed list of
\* that edge is non-empty and the neighbour is not outside the bbox; the
\* records go to the tail in the order north, east, south, west, each with the
\* extra item of its edge, and the entries already queued are unchanged.
C9_EnqueueOrderAndFilter ==
    [][/\ (pc = "main" /\ last'.op \in {"uniform", "fill", "shortcut"}) =>
            EnqueuedInOrder(tileq, tileq', last'.tc, last'.overflows,
                            IF driver = "scanline"
                            THEN <<<<"south">>, <<"west">>, <<"north">>, <<"east">>>>
                            ELSE <<<<>>, <<>>, <<>>, <<>>>>)
       /\ UnseepDue =>
            EnqueuedInOrder(unseep_q, unseep_q', last'.tc, last'.overflows,
                            <<<<FALSE>>, <<FALSE>>, <<FALSE>>, <<FALSE>>>>)]_vars

\* C9 witness: a fill left records waiting, dropped the seeds of an edge whose
\* neighbour is outside the bbox and queued two other neighbours.
C9_FilteredAndQueued ==
    /\ pc = "main" /\ last.op = "fill"
    /\ \E i \in 1 .. 4 : Truthy(last.overflows[i]) /\ outside(tiles_bbox, Neighbour(last.tc, i))
    /\ Cardinality(DueEdges(last.tc, last.overflows)) >= 2
    /\ Len(tileq) > Cardinality(DueEdges(last.tc, last.overflows))

\* C10: scanline_fill terminates: its queue empties and it returns.
C10_ScanlineTerminates ==
    (driver = "scanline") ~> (pc = "done")

\* C10 witness: scanline_fill returned after filling some tile more than once.
C10_ReturnedAfterRefill ==
    /\ driver = "scanline" /\ pc = "done"
    /\ calls.fill > Cardinality(Keys \ final)

\* The edge opposite to edge i of the order north, east, south, west
Opposite(i) == CASE i = 1 -> "south" [] i = 2 -> "west" [] i = 3 -> "north" [] i = 4 -> "east"

\* The records a step appended to the queue after popping its head
Appended == {tileq'[k] : k \in Len(tileq) .. Len(tileq')}

\* The edges of tc other than from_dir whose neighbour is not outside the bbox
OnwardEdges(tc, from_dir) ==
    {i \in 1 .. 4 : Edges[i] # from_dir /\ ~outside(tiles_bbox, Neighbour(tc, i))}

\* C17: in scanline_fill every record enqueued for the neighbour across edge d
\* of the processed tile carries the opposite edge as from_edge; a tile the
\* skipper short-circuits as uniformly filled (alpha # 0) with from_edge X
\* enqueues exactly one full-edge record [(0, N-1)] for each neighbour that is
\* not across X and not outside the bbox (all four edges when X is none).
C17_OriginEdgeTagging ==
    [][(driver = "scanline" /\ pc = "main" /\ Len(tileq) > 0) =>
        /\ \A r \in Appended :
              \E i \in 1 .. 4 : r[1] = Neighbour(Head(tileq)[1], i) /\ r[3] = Opposite(i)
        /\ (last'.op = "uniform" /\ Head(tileq)[1] \in DOMAIN filled') =>
              /\ Appended = {<<Neighbour(Head(tileq)[1], i), FullEdge, Opposite(i)>> :
                                i \in OnwardEdges(Head(tileq)[1], Head(tileq)[3])}
              /\ Len(tileq') - Len(tileq) + 1 =
                    Cardinality(OnwardEdges(Head(tileq)[1], Head(tileq)[3]))]_vars

\* C17 witness: a uniformly filled tile entered through one of its edges was
\* short-circuited and left three full-edge records at the back of the queue.
C17_ShortCircuitedFromEdge ==
    /\ driver = "scanline" /\ last.op = "uniform" /\ last.tc \in DOMAIN filled
    /\ \E i \in 1 .. 4 : last.overflows[i] = NoSeeds
    /\ Len(tileq) >= 3
    /\ \A k \in Len(tileq) - 2 .. Len(tileq) :
          tileq[k][2] = FullEdge /\ tileq[k][3] # EdgeNone
          /\ \E i \in 1 .. 4 : tileq[k][1] = Neighbour(last.tc, i)

\* The tile at the head of the queue must go through Filler.fill: it is not
\* final, and it has an entry in `filled` or crosses the bbox.
MustFill(tc) ==
    /\ driver = "scanline" /\ pc = "main" /\ Len(tileq) > 0 /\ Head(tileq)[1] = tc
    /\ tc \notin final
    /\ tc \in DOMAIN filled \/ crossing(tiles_bbox, tc)

\* C19: in scanline_fill a dequeued tile that has an entry in `filled` or is
\* bbox-crossing is never short-circuited: the step calls Filler.fill, leaves
\* `final` alone, the entry is an owned buffer and no pixel outside
\* tile_bounds(tc) is written; no bbox-crossing tile is ever final or mapped
\* to FULL_TILE or a shared uniform tile.
C19_NoShortCircuitOnEntryOrCrossing ==
    [][driver = "scanline" =>
        /\ \A tc \in DOMAIN filled' :
              crossing(tiles_bbox, tc) => IsOwned(filled'[tc]) /\ tc \notin final'
        /\ \A tc \in DOMAIN filled :
              IsOwned(filled[tc]) => IsOwned(filled'[tc]) /\ tc \notin final'
        /\ \A tc \in {Head(tileq)[1] : k \in {1} \cap DOMAIN tileq} :
              MustFill(tc) =>
                /\ last'.op = "fill" /\ calls'.fill = calls.fill + 1
                /\ final' = final
                /\ IsOwned(filled'[tc])
                /\ \A q \in Px :
                      ~InBounds(tile_bounds(tiles_bbox, tc), q) =>
                          filled'[tc].px[q] =
                              IF tc \in DOMAIN filled THEN filled[tc].px[q] ELSE 0]_vars

\* C19 witness: a uniformly OPAQUE tile on the edge of the bbox went through
\* Filler.fill, which left the pixels outside its clip bounds unfilled.
C19_CrossingUniformTileFilled ==
    /\ driver = "scanline" /\ last.op = "fill"
    /\ crossing(tiles_bbox, last.tc) /\ ~outside(tiles_bbox, last.tc)
    /\ tile_uniformity(SrcTile(src, last.tc)) = OPAQUE
    /\ IsOwned(filled[last.tc])
    /\ \E q \in Px : filled[last.tc].px[q] = 0
    /\ \E q \in Px : filled[last.tc].px[q] = OPAQUE

\* The fill of tc in this step bled into gap-marked pixels: a pixel it newly
\* filled has a distance below the gapless mark.
Seeped(tc) ==
    \E q \in Px :
        /\ filled'[tc].px[q] # 0
        /\ tc \in DOMAIN filled => filled[tc].px[q] = 0
        /\ distances'[tc].px[q] < GAPLESS

\* C20: in gap_closing_fill the retraction is a second pass: unseep is called
\* only when the main queue is empty; after the first unseep call there is no
\* fill call and the main queue gets no record; a fill call appends
\* (tc, fill_edges, True) to the unseep queue exactly when it bled into
\* gap-marked pixels, other main-loop steps leave that queue alone, and every
\* record the retraction loop appends carries is_initial = False.
C20_RetractionIsSecondPass ==
    [][driver = "gap_closing" =>
        /\ calls'.unseep > calls.unseep => tileq = << >>
        /\ calls.unseep > 0 => calls'.fill = calls.fill /\ tileq' = tileq
        /\ pc = "main" =>
              IF calls'.fill > calls.fill /\ Seeped(Head(tileq)[1])
              THEN /\ Len(unseep_q') = Len(unseep_q) + 1
                   /\ SubSeq(unseep_q', 1, Len(unseep_q)) = unseep_q
                   /\ unseep_q'[Len(unseep_q')][1] = Head(tileq)[1]
                   /\ Truthy(unseep_q'[Len(unseep_q')][2])
                   /\ unseep_q'[Len(unseep_q')][3] = TRUE
              ELSE unseep_q' = unseep_q
        /\ (pc = "unseep" /\ Len(unseep_q) > 0) =>
              /\ Len(unseep_q') >= Len(unseep_q) - 1
              /\ SubSeq(unseep_q', 1, Len(unseep_q) - 1) = Tail(unseep_q)
              /\ \A k \in Len(unseep_q) .. Len(unseep_q') : unseep_q'[k][3] = FALSE]_vars

\* C20 witness: after the main queue drained, an unseep call has put a
\* record with is_initial = False behind a record a fill call had queued.
C20_RetractionSpread ==
    /\ driver = "gap_closing" /\ pc = "unseep" /\ tileq = << >>
    /\ calls.fill > 0 /\ calls.unseep > 0
    /\ \E k \in DOMAIN unseep_q : unseep_q[k][3] = FALSE
    /\ \E k \in DOMAIN unseep_q : unseep_q[k][3] = TRUE

\* C18: a tile gap_closing_fill short-circuits with edge tag X, the edge
\* through which it was entered, enqueues the neighbours across its other
\* three edges that are not outside the bbox, and not the neighbour across X.
C18_ShortcutGoesOnward ==
    [][(driver = "gap_closing" /\ pc = "main" /\ Len(tileq) > 0
            /\ last'.op = "shortcut" /\ Len(Head(tileq)[2].items) = 1) =>
        {r[1] : r \in Appended} =
            {Neighbour(Head(tileq)[1], i) :
                i \in OnwardEdges(Head(tileq)[1], Head(tileq)[2].items[1])}]_vars

\* A connected run of gapless FULL tiles is covered: the tile east of (2,1)
\* is reached when only (2,1) leads to it.
C18_RegionCovered ==
    (pc = "done" /\ src.zero # {} /\ SeedTile = <<1, 1>>) => <<3, 1>> \in DOMAIN filled

\* C11: the map scanline_fill returns does not depend on the order in which
\* the queued records are processed: whatever the order, it has the keys and
\* the per-tile contents of the run that pops the queue at the front.
C11_ResultIndependentOfOrder ==
    (driver = "scanline" /\ pc = "done" /\ order = "lifo") =>
        SameContent(filled, reference)

\* The coordinates composite may meet: those of `filled` and those of dst
Met == (DOMAIN filled) \cup (DOMAIN dst) \cup (DOMAIN dst')

\* tc lies inside the tile rectangle bb = (min_tx, min_ty, max_tx, max_ty)
InBox(bb, tc) == bb[1] <= tc[1] /\ tc[1] <= bb[3] /\ bb[2] <= tc[2] /\ tc[2] <= bb[4]

\* C12: when composite runs with trim_result true, a tile whose coordinate is
\* outside tiles_bbox is never requested from dst, modified, created or
\* removed, and it is not inside the changed bounding box.
C12_TrimmedOutsideUntouched ==
    [][(pc = "composite" /\ trim_result) =>
        \A tc \in {c \in Met : outside(tiles_bbox, c)} :
            /\ tc \notin acquired'
            /\ tc \in DOMAIN dst <=> tc \in DOMAIN dst'
            /\ tc \in DOMAIN dst => dst'[tc] = dst[tc]
            /\ dst_changed_bbox' # NoBBox => ~InBox(dst_changed_bbox', tc)]_vars

\* C12 witness: a trimmed composite has returned after writing to dst, and
\* `filled` had an entry outside the bbox whose dst tile exists.
C12_OutsideEntryTrimmed ==
    /\ pc = "returned" /\ trim_result /\ acquired # {} /\ Len(notified) = 1
    /\ \E tc \in DOMAIN filled \cap DOMAIN dst :
          outside(tiles_bbox, tc) /\ dst[tc] = OldTile /\ filled[tc] # EMPTY_TILE

\* C13: composite skips an entry of `filled` whose tile is EMPTY_TILE: the
\* iteration requests no dst tile, changes no dst tile and adds nothing to
\* the changed bounding box.
C13_EmptyTileSkipped ==
    [][(pc = "composite" /\ Len(todo) > 0 /\ filled[Head(todo)] = EMPTY_TILE) =>
        UNCHANGED <<dst, dst_changed_bbox, acquired>>]_vars

\* C14: with a mode other than CombineNormal composite never creates a dst
\* tile: an entry at a coordinate dst has no tile for is skipped without a
\* tile request, and the key set of dst stays the same or shrinks.
C14_NoTileCreatedWhenErasing ==
    [][(pc = "composite" /\ mode # "CombineNormal") =>
        /\ DOMAIN dst' \subseteq DOMAIN dst
        /\ (Len(todo) > 0 /\ Head(todo) \notin DOMAIN dst) =>
              UNCHANGED <<dst, dst_changed_bbox, acquired>>]_vars

\* C14 witness: an erasing composite has returned; it skipped an entry inside
\* the bbox that dst has no tile for and dropped a dst tile under a FULL_TILE.
C14_ErasedWithoutAllocating ==
    /\ pc = "returned" /\ mode = "CombineDestinationOut"
    /\ \E tc \in DOMAIN filled :
          ~outside(tiles_bbox, tc) /\ tc \notin DOMAIN dst /\ tc \notin acquired
    /\ \E tc \in acquired : is_full(filled[tc]) /\ tc \notin DOMAIN dst

MinOf(S) == CHOOSE x \in S : \A y \in S : x <= y
MaxOf(S) == CHOOSE x \in S : \A y \in S : x >= y

\* The pixel rectangle covering the tiles of T
Covering(T) ==
    <<MinOf({tc[1] : tc \in T}) * N, MinOf({tc[2] : tc \in T}) * N,
      (1 + MaxOf({tc[1] : tc \in T}) - MinOf({tc[1] : tc \in T})) * N,
      (1 + MaxOf({tc[2] : tc \in T}) - MinOf({tc[2] : tc \in T})) * N>>

\* C15: composite calls dst.notify_observers at most once, only after its
\* loop, and exactly when some dst tile was requested for writing; the
\* rectangle is the pixel rectangle covering the requested tiles, whatever the
\* order of the items.
C15_NotifiesOnceWithCoveringRect ==
    /\ Len(notified) <= 1
    /\ Len(notified) = 1 => pc = "returned" /\ todo = << >>
    /\ pc = "returned" =>
          IF acquired = {} THEN notified = << >>
          ELSE notified = << Covering(acquired) >>

\* C15 witness: composite returned after requesting two tiles that are not
\* neighbours, and notified the rectangle that spans both.
C15_NotifiedSpanningRect ==
    /\ pc = "returned" /\ acquired = {<<0, 2>>, <<3, 1>>}
    /\ notified = << <<0, N, 4 * N, 2 * N>> >>

\* C16: flood_fill called with a bbox of width or height <= 0 returns at once
\* and has no effect: no source tile is requested, no fill runs, no dst tile
\* is requested, created, changed or removed, no observer is notified; and
\* nothing happens after flood_fill has returned.
C16_DegenerateBBoxIsNoop ==
    [][/\ (pc = "entry" /\ (bbox[3] <= 0 \/ bbox[4] <= 0)) =>
            /\ pc' = "returned"
            /\ UNCHANGED <<calls, handed, filled, final, tileq, nalloc, dst,
                           dst_changed_bbox, acquired, notified>>
       /\ pc # "returned"]_vars

\* C16 witness: flood_fill returned for an empty bbox with a dst that has
\* tiles, none of which was requested.
C16_RejectedEmptyBBox ==
    /\ pc = "returned" /\ bbox[3] = 0 /\ bbox[4] > 0
    /\ calls = NoCalls /\ acquired = {} /\ notified = << >>
    /\ DOMAIN dst = CanvasTiles

\* C21: from the moment the main queue of gap_closing_fill has drained, the
\* retraction loop and the rollback leave the key sets of `filled` and
\* `distances` as they were, and an unseep record for a tile that is not in
\* `distances` or not in `filled` is dropped: no backup, no unseep call, no
\* change of total_px or of `filled`, nothing enqueued.
Dropped ==
    /\ Len(unseep_q) > 0
    /\ Head(unseep_q)[1] \notin (DOMAIN distances) \cap (DOMAIN filled)

C21_RetractionKeepsKeys ==
    [][(driver = "gap_closing" /\ pc = "unseep")
          => /\ DOMAIN filled' = DOMAIN filled
             /\ DOMAIN distances' = DOMAIN distances
             /\ pc' = "done" => DOMAIN filled' = DOMAIN drained
             /\ Dropped => /\ unseep_q' = Tail(unseep_q)
                           /\ UNCHANGED <<backup, filled, total_px, nalloc, handed>>
                           /\ calls'.unseep = calls.unseep]_vars

\* A record for a tile that was never filled has been dropped.
C21_RecordDropped ==
    /\ driver = "gap_closing" /\ pc = "unseep"
    /\ last.op = "drop"
    /\ last.tc \notin DOMAIN filled
    /\ DOMAIN filled # {}

\* C22: gap_closing_fill never writes max_gap_size back to the options object,
\* and options.retract_seeps is what the caller passed, except that it is False
\* once the initial seed record has been processed with a seed pixel whose
\* distance in distances[tc] is below 2*N*N; the GapClosingFiller in use has
\* the clamped gap size and the same retraction flag as the options.
SeedOnGap ==
    /\ SeedTile \in DOMAIN distances
    /\ distances[SeedTile].px[<<init[3], init[4]>>] < GAPLESS

C22_OptionsOnlyLoseRetraction ==
    driver = "gap_closing"
        => /\ options.max_gap_size = passed.max_gap_size
           /\ options.retract_seeps = (passed.retract_seeps /\ ~SeedOnGap)
           /\ gc_filler = [max_gap_size |-> clamp(passed.max_gap_size, 1, N),
                           retract_seeps |-> options.retract_seeps]

\* A fill called with retraction on and a gap size the clamp changes has
\* returned with retraction switched off in the caller's object.
C22_RetractionSwitchedOff ==
    /\ driver = "gap_closing" /\ pc = "done"
    /\ passed = [max_gap_size |-> 0, retract_seeps |-> TRUE]
    /\ options = [max_gap_size |-> 0, retract_seeps |-> FALSE]
    /\ SeedOnGap
    /\ calls.fill > 1

====
